---- MODULE Spec2Model ----
(***************************************************************************)
(* State machine of the MMO-WORLD game server (src/server.js) and of its   *)
(* item factory (src/models/items.js).                                     *)
(*                                                                         *)
(* Node runs every callback to completion, so each connection, message,    *)
(* close event and timer callback is one atomic action.                    *)
(*                                                                         *)
(* Coordinates are offsets from the default position (40.7128, -74.0060)   *)
(* in units of 0.0001 degree.  Math.sqrt is monotone, so a comparison      *)
(* dist < 0.001 is modelled on squared distances (in units of 1e-8).       *)
(* Time is kept as the remaining delay of every pending timer, in ms;      *)
(* the clock advances in steps of 1000 ms and never past a due timer.      *)
(*                                                                         *)
(* Modelled: the connection and close handlers, the authorization check,   *)
(* every case of the switch, the completion timers and the spawn cycle.    *)
(* Each specification below lets the clients send the messages that the    *)
(* properties stated under it are about.                                   *)
(*                                                                         *)
(* The older server kept in src/attached_assets is modelled apart          *)
(* (SpecXp): its connections, quests and gain_xp.                          *)
(***************************************************************************)
EXTENDS Integers, Sequences, FiniteSets, TLC

VARIABLES
    wsState,         \* client -> "new" | "open" | "closed" (wss.clients / readyState)
    clientSessions,  \* Map clientId -> playerId
    players,         \* the players object: playerId -> player record
    playerKeys,      \* Object.keys(players): the player ids in insertion order
    worldItems,      \* the worldItems array
    timers,          \* pending completion timers (setTimeout of pickup_item)
    crashed,         \* an exception escaped a timer callback: the process is dead
    minted,          \* number of item identities created so far
    stamped,         \* the identity stamp made in the current millisecond (0: none),
                     \* and whether spawnNewItems has run in it
    playerQuests,    \* the older server's playerQuests: playerId -> accepted quests
    sent,            \* messages sent to the clients by the step just taken
    logged           \* the last line the step just taken wrote to the console

vars == <<wsState, clientSessions, players, playerKeys, worldItems, timers,
          crashed, minted, stamped, playerQuests, sent, logged>>

----------------------------------------------------------------------------
(* Bounds of the model *)

\* completion timers that may be pending at once
MaxTimers == 2
\* identity stamps minted in all (the seeding takes one)
MaxMint == 2
\* the longest name a client sends
MaxName == 21
\* the highest level a player of the older server reaches
MaxLevel == 3
\* the most quests a player of the older server holds at once
MaxQuests == 2
\* the most experience a player of the older server holds
MaxXp == 400
\* attacks with a negative damage are cut off above this hp
HpCap == 150

Clients == {"c1", "c2"}
None == "none"
\* no identity has been made in the current millisecond
NoStamp == [stamp |-> 0, spawn |-> FALSE]
EmptyMap == [x \in {} |-> None]
\* delete m[k]
Delete(m, k) == [x \in DOMAIN m \ {k} |-> m[x]]
\* m[k] = v for a new or an old key
Put(m, k, v) == [x \in DOMAIN m \cup {k} |-> IF x = k THEN v ELSE m[x]]

\* uuidv4(): the player identity minted for a connection
PlayerIdOf(c) == IF c = "c1" THEN "p1" ELSE "p2"
PlayerIds == {PlayerIdOf(c) : c \in Clients}
ClientOf(p) == CHOOSE c \in Clients : PlayerIdOf(c) = p

----------------------------------------------------------------------------
(* Positions and distances *)

Pos(a, b) == [ok |-> TRUE, lat |-> a, lng |-> b]
\* a missing position (undefined)
NoPos == [ok |-> FALSE, lat |-> 0, lng |-> 0]
DefaultPos == Pos(0, 0)

\* the square of Math.sqrt(Math.pow(a.lat - b.lat, 2) + Math.pow(a.lng - b.lng, 2))
DistSq(a, b) == (a.lat - b.lat) * (a.lat - b.lat) + (a.lng - b.lng) * (a.lng - b.lng)

\* 0.001 squared, in units of 1e-8
PickupRangeSq == 100
\* 0.0002 squared
AttackRangeSq == 4
HealRangeSq == 4
\* substring(0, 20)
NameLimit == 20

\* pickup_item: if (dist < 0.001)
PickupInRange(itemPos, playerPos) == DistSq(itemPos, playerPos) < PickupRangeSq

----------------------------------------------------------------------------
(* Items: src/models/items.js *)

Templates == {"health-potion", "iron-sword", "gold-coin", "leather-armor"}

TemplateType(t) ==
    CASE t = "iron-sword" -> "weapon"
      [] t = "steel-sword" -> "weapon"
      [] t = "leather-armor" -> "armor"
      [] t = "health-potion" -> "consumable"
      [] t = "gold-coin" -> "collectible"

\* stats.heal, stats.value, stats.attack; 0 stands for an absent stat
StatHeal(t) == IF t = "health-potion" THEN 20 ELSE 0
StatValue(t) == IF t = "gold-coin" THEN 1 ELSE 0
StatAttack(t) == CASE t = "iron-sword" -> 5 [] t = "steel-sword" -> 10 [] OTHER -> 0

\* the itemId `${id}-${Date.now()}-${random}`: template and suffix
NoItemId == <<None, 0>>
\* an itemId no item ever carries
BogusItemId == <<"iron-sword", 0>>

\* ItemTemplate.createItem with customProperties {position, collectionTime};
\* beingCollected and collectorId are undefined on a new item
createItem(t, suffix, pos, ctime) ==
    [id |-> t, type |-> TemplateType(t), itemId |-> <<t, suffix>>,
     position |-> pos, collectionTime |-> ctime,
     beingCollected |-> FALSE, collectorId |-> None]

\* Array.prototype.findIndex on itemId, 1-based; 0 for -1
FindIndex(items, itemId) ==
    IF \E i \in 1..Len(items) : items[i].itemId = itemId
    THEN CHOOSE i \in 1..Len(items) :
            /\ items[i].itemId = itemId
            /\ \A j \in 1..(i - 1) : items[j].itemId # itemId
    ELSE 0

\* Array.prototype.splice(i, 1)
Splice(s, i) == SubSeq(s, 1, i - 1) \o SubSeq(s, i + 1, Len(s))

\* createInitialItemsNearPosition
createInitialItemsNearPosition(lat, lng, suffix) ==
    <<createItem("health-potion", suffix, Pos(lat, lng + 2), 2000),
      createItem("iron-sword", suffix, Pos(lat + 2, lng - 1), 5000),
      createItem("gold-coin", suffix, Pos(lat - 1, lng + 1), 1000),
      createItem("leather-armor", suffix, Pos(lat + 1, lng - 2), 3000)>>

----------------------------------------------------------------------------
(* Messages *)

OpenClients == {c \in Clients : wsState[c] = "open"}

\* an outbound message: its receiver, its type, and the itemId, message or
\* collectionTime field it carries
Msg(to, type, itemId, text, num) ==
    [to |-> to, type |-> type, itemId |-> itemId, text |-> text, num |-> num]
\* a broadcast that reaches nobody
Broadcast_Nobody(type) == {}
\* wss.clients.forEach(client => { if (client.readyState === WebSocket.OPEN) ... })
Broadcast(type) == {Msg(c, type, NoItemId, None, 0) : c \in OpenClients}
WorldUpdate == Broadcast("world_update")

\* a string field that is undefined (the empty string is <<>>)
Undefined == <<None>>
\* an inbound message; a field that is absent holds None, NoItemId, NoPos, 0,
\* Undefined or the empty string <<>>
Blank == [type |-> None, playerId |-> None, itemId |-> NoItemId, weaponId |-> NoItemId,
          targetPlayerId |-> None, position |-> NoPos, damage |-> 0,
          message |-> Undefined, healAmount |-> 0, profilePlayerId |-> None,
          name |-> <<>>, avatar |-> None, amount |-> 0,
          npcId |-> None, questId |-> None]

\* isAuthorizedForPlayer
isAuthorizedForPlayer(clientId, targetPlayerId) ==
    /\ clientId \in DOMAIN clientSessions
    /\ clientSessions[clientId] = targetPlayerId

\* a handler without the check
Authorized_Ignore(c, data) == TRUE
\* const targetPlayerId = data.playerId || playerId, and the check on it
Authorized(c, data) ==
    LET playerId == PlayerIdOf(c)
        targetPlayerId == IF data.playerId # None THEN data.playerId ELSE playerId
    IN ~(/\ data.type # "view_profile"
         /\ targetPlayerId # playerId
         /\ ~isAuthorizedForPlayer(c, targetPlayerId))

\* ws.on("message") runs for an open socket of a live process
Receives(c, data) ==
    /\ ~crashed
    /\ wsState[c] = "open"

\* what a step sends and the last line it logs
Out(msgs, line) ==
    /\ sent' = msgs
    /\ logged' = line

----------------------------------------------------------------------------
(* Initial state: the server has started, nobody has connected *)

Init ==
    /\ wsState = [c \in Clients |-> "new"]
    /\ clientSessions = EmptyMap
    /\ players = EmptyMap
    /\ playerKeys = <<>>
    /\ worldItems = <<>>
    /\ timers = <<>>
    /\ crashed = FALSE
    /\ minted = 0
    /\ stamped = NoStamp
    /\ playerQuests = EmptyMap
    /\ sent = {}
    /\ logged = "Server running"

----------------------------------------------------------------------------
(* Connections *)

\* the avatar list of getAvailableAvatars when the avatar directory is new
Avatars == <<"robohash-default">>

\* `Player-${playerId.slice(0, 4)}`
InitialName(playerId) == <<"P", "l", "a", "y", "e", "r", "-", playerId>>

NewPlayer(playerId, avatar) ==
    [id |-> playerId, name |-> InitialName(playerId), position |-> DefaultPos,
     avatar |-> avatar, hp |-> 100, level |-> 1, xp |-> 0, gold |-> 10,
     inventory |-> <<>>, lastMessage |-> <<>>]

\* wss.on("connection")
Connection(c) ==
    /\ ~crashed
    /\ wsState[c] = "new"
    \* the connections are named in the order they arrive
    /\ c = "c1" \/ wsState["c1"] # "new"
    /\ \E a \in 1..Len(Avatars) :
        LET playerId == PlayerIdOf(c)
            player == NewPlayer(playerId, Avatars[a])
        IN  /\ wsState' = [wsState EXCEPT ![c] = "open"]
            /\ clientSessions' = Put(clientSessions, c, playerId)
            /\ players' = Put(players, playerId, player)
            /\ playerKeys' = Append(playerKeys, playerId)
            /\ IF Len(worldItems) = 0
               THEN /\ worldItems' = createInitialItemsNearPosition(
                                         player.position.lat, player.position.lng, minted + 1)
                    /\ minted' = minted + 1
               ELSE UNCHANGED <<worldItems, minted>>
            /\ Out({Msg(c, "init", NoItemId, None, 0)} \cup
                   {Msg(o, "player_joined", NoItemId, playerId, 0) : o \in OpenClients},
                   "New client connected!")
    /\ UNCHANGED <<timers, crashed, stamped, playerQuests>>

\* a close handler that keeps the player
RemovePlayer_Keep(ps, playerId) == ps
\* delete players[playerId]
RemovePlayer(ps, playerId) == Delete(ps, playerId)

\* ws.on("close")
Close(c) ==
    /\ ~crashed
    /\ wsState[c] = "open"
    /\ LET playerId == PlayerIdOf(c)
       IN  /\ wsState' = [wsState EXCEPT ![c] = "closed"]
           /\ clientSessions' = Delete(clientSessions, c)
           /\ players' = RemovePlayer(players, playerId)
           /\ playerKeys' = SelectSeq(playerKeys, LAMBDA k : k # playerId)
           /\ Out({Msg(o, "player_left", NoItemId, playerId, 0) : o \in OpenClients \ {c}},
                  "Client disconnected")
    /\ UNCHANGED <<worldItems, timers, crashed, minted, stamped, playerQuests>>

----------------------------------------------------------------------------
(* The clock *)

\* 1000 ms pass; no timer is overdue
Tick ==
    /\ ~crashed
    /\ Len(timers) > 0
    /\ \A k \in 1..Len(timers) : timers[k].remaining >= 1000
    /\ timers' = [k \in 1..Len(timers) |->
                    [timers[k] EXCEPT !.remaining = @ - 1000]]
    \* Date.now() has moved on
    /\ stamped' = NoStamp
    /\ Out({}, None)
    /\ UNCHANGED <<wsState, clientSessions, players, playerKeys, worldItems,
                   crashed, minted, playerQuests>>

----------------------------------------------------------------------------
(* ws.on("message") *)

\* what every step that is no connection event leaves alone
Sessions == <<wsState, clientSessions, playerKeys, crashed, minted, stamped, playerQuests>>

\* the message is dropped by the authorization check: return before the switch
Unauthorized(c, data) ==
    /\ Receives(c, data)
    /\ ~Authorized(c, data)
    /\ Out({}, "Unauthorized action attempted")
    /\ UNCHANGED <<Sessions, players, worldItems, timers>>

\* an exception thrown inside the try block: caught and logged, nothing is sent
Thrown ==
    /\ Out({}, "Error processing message")
    /\ UNCHANGED <<Sessions, players, worldItems, timers>>

\* case "update_position"
UpdatePosition(c, data) ==
    /\ Receives(c, data)
    /\ Authorized(c, data)
    /\ data.type = "update_position"
    /\ players' = [players EXCEPT ![PlayerIdOf(c)].position = data.position]
    /\ Out(WorldUpdate, "Received")
    /\ UNCHANGED <<Sessions, worldItems, timers>>

\* const collectionTime = item.collectionTime || 3000
CollectionTime(item) == IF item.collectionTime # 0 THEN item.collectionTime ELSE 3000

\* a pickup_item that leaves out the claim check
CanBeginCollect_Unchecked(item) == TRUE

\* the claim check of pickup_item: if (!item.beingCollected)
CanBeginCollect(item) == ~item.beingCollected

\* a pickup_item that claims the item before it computes the distance
BeforeDistance_Claim(items, itemIndex, playerId) ==
    [items EXCEPT ![itemIndex] = [@ EXCEPT !.beingCollected = TRUE,
                                           !.collectorId = playerId]]
\* what pickup_item has written to worldItems when it computes the distance:
\* nothing
BeforeDistance(items, itemIndex, playerId) == items

\* case "pickup_item"
PickupItem(c, data) ==
    /\ Receives(c, data)
    /\ Authorized(c, data)
    /\ data.type = "pickup_item"
    /\ LET playerId == PlayerIdOf(c)
           itemIndex == FindIndex(worldItems, data.itemId)
       IN
       IF itemIndex # 0
       THEN LET item == worldItems[itemIndex]
                itemPos == item.position
                playerPos == players[playerId].position
            IN
            IF ~itemPos.ok \/ ~playerPos.ok
            THEN \* TypeError on .lat of undefined
                 /\ worldItems' = BeforeDistance(worldItems, itemIndex, playerId)
                 /\ Out({}, "Error processing message")
                 /\ UNCHANGED <<Sessions, players, timers>>
            ELSE IF PickupInRange(itemPos, playerPos)
            THEN IF CanBeginCollect(item)
                 THEN /\ Len(timers) < MaxTimers
                      /\ worldItems' = [worldItems EXCEPT ![itemIndex] =
                             [@ EXCEPT !.beingCollected = TRUE, !.collectorId = playerId]]
                      /\ timers' = Append(timers,
                             [playerId |-> playerId, itemId |-> item.itemId,
                              remaining |-> CollectionTime(item), canceled |-> FALSE])
                      /\ Out({Msg(c, "collection_started", item.itemId, None,
                                  CollectionTime(item))} \cup WorldUpdate,
                             "Starting collection for item")
                      /\ UNCHANGED <<Sessions, players>>
                 ELSE IF item.collectorId # playerId
                 THEN /\ Out({Msg(c, "collection_error", NoItemId,
                                  "This item is being collected by another player", 0)}
                             \cup WorldUpdate, "Distance to item")
                      /\ UNCHANGED <<Sessions, players, worldItems, timers>>
                 ELSE /\ Out(WorldUpdate, "Distance to item")
                      /\ UNCHANGED <<Sessions, players, worldItems, timers>>
            ELSE /\ Out({Msg(c, "collection_error", NoItemId,
                             "Item is too far away to collect", 0)} \cup WorldUpdate,
                        "Item too far away for collection")
                 /\ UNCHANGED <<Sessions, players, worldItems, timers>>
       ELSE /\ Out(WorldUpdate, "Item not found in world items")
            /\ UNCHANGED <<Sessions, players, worldItems, timers>>

\* a lookup that takes the item whoever holds it
FindClaimed_AnyHolder(items, itemId, playerId) == FindIndex(items, itemId)
\* findIndex(item => item.itemId === data.itemId && item.collectorId === playerId)
FindClaimed(items, itemId, playerId) ==
    IF \E i \in 1..Len(items) : items[i].itemId = itemId /\ items[i].collectorId = playerId
    THEN CHOOSE i \in 1..Len(items) :
            /\ items[i].itemId = itemId /\ items[i].collectorId = playerId
            /\ \A j \in 1..(i - 1) :
                  ~(items[j].itemId = itemId /\ items[j].collectorId = playerId)
    ELSE 0

\* a cancel that forgets the beingCollected flag
Unclaim_KeepFlag(item) == [item EXCEPT !.collectorId = None]
\* worldItems[cancelItemIndex].beingCollected = false; .collectorId = null
Unclaim(item) == [item EXCEPT !.beingCollected = FALSE, !.collectorId = None]

\* case "cancel_collection"
CancelCollection(c, data) ==
    /\ Receives(c, data)
    /\ Authorized(c, data)
    /\ data.type = "cancel_collection"
    /\ LET playerId == PlayerIdOf(c)
           cancelItemIndex == FindClaimed(worldItems, data.itemId, playerId)
       IN
       IF cancelItemIndex # 0
       THEN /\ worldItems' = [worldItems EXCEPT ![cancelItemIndex] = Unclaim(@)]
            \* the timer is not cleared; the model notes on the timers of the
            \* claim that are not due yet that the claim is canceled
            /\ timers' = [k \in 1..Len(timers) |->
                   IF /\ timers[k].playerId = playerId /\ timers[k].itemId = data.itemId
                      /\ timers[k].remaining > 0
                   THEN [timers[k] EXCEPT !.canceled = TRUE]
                   ELSE timers[k]]
            /\ Out({Msg(c, "collection_canceled", data.itemId, None, 0)} \cup WorldUpdate,
                   "Received")
       ELSE /\ Out(WorldUpdate, "Received")
            /\ UNCHANGED <<worldItems, timers>>
    /\ UNCHANGED <<Sessions, players>>

\* Array.prototype.findIndex(item => item.itemId === id && item.type === type)
FindTyped(inventory, itemId, type) ==
    IF \E i \in 1..Len(inventory) : inventory[i].itemId = itemId /\ inventory[i].type = type
    THEN CHOOSE i \in 1..Len(inventory) :
            /\ inventory[i].itemId = itemId /\ inventory[i].type = type
            /\ \A j \in 1..(i - 1) :
                  ~(inventory[j].itemId = itemId /\ inventory[j].type = type)
    ELSE 0

Max(a, b) == IF a >= b THEN a ELSE b
Min(a, b) == IF a <= b THEN a ELSE b

\* players[targetPlayerId].hp = Math.max(0, players[targetPlayerId].hp - damage)
Damaged(hp, damage) == Max(0, hp - damage)

\* an attack that takes the target's gold as well
Struck_Robbed(player, damage) ==
    [player EXCEPT !.hp = Damaged(@, damage), !.gold = 0]
\* the write of attack_player to the target's record
Struck(player, damage) == [player EXCEPT !.hp = Damaged(@, damage)]

\* case "attack_player"
AttackPlayer(c, data) ==
    /\ Receives(c, data)
    /\ Authorized(c, data)
    /\ data.type = "attack_player"
    /\ LET playerId == PlayerIdOf(c)
           targetPlayerId == data.targetPlayerId
           weaponId == data.weaponId
           damage == IF data.damage # 0 THEN data.damage ELSE 5
           failed(text) == Out({Msg(c, "attack_failed", NoItemId, text, 0)}
                               \cup WorldUpdate, "Received")
       IN
       IF targetPlayerId \in DOMAIN players
       THEN LET weaponIndex == FindTyped(players[playerId].inventory, weaponId, "weapon")
            IN
            IF weaponIndex # 0
            THEN LET attackerPos == players[playerId].position
                     targetPos == players[targetPlayerId].position
                 IN
                 IF ~attackerPos.ok \/ ~targetPos.ok
                 THEN Thrown
                 ELSE IF DistSq(targetPos, attackerPos) <= AttackRangeSq
                 THEN /\ Damaged(players[targetPlayerId].hp, damage) <= HpCap
                      /\ players' = [players EXCEPT ![targetPlayerId] =
                                        Struck(@, damage)]
                      /\ Out({Msg(c, "attack_success", NoItemId, None, damage)}
                             \cup {Msg(o, "attacked", NoItemId, None, damage) :
                                     o \in {x \in OpenClients :
                                              /\ x \in DOMAIN clientSessions
                                              /\ clientSessions[x] = targetPlayerId}}
                             \cup WorldUpdate, "Received")
                      /\ UNCHANGED <<Sessions, worldItems, timers>>
                 ELSE /\ failed("Target is too far away to attack!")
                      /\ UNCHANGED <<Sessions, players, worldItems, timers>>
            ELSE /\ failed("Weapon not found in your inventory!")
                 /\ UNCHANGED <<Sessions, players, worldItems, timers>>
       ELSE /\ failed("Target player not found!")
            /\ UNCHANGED <<Sessions, players, worldItems, timers>>

----------------------------------------------------------------------------
(* The other cases of the switch *)

\* the body is not JSON: JSON.parse throws inside the try block
Unparseable(c) ==
    /\ Receives(c, Blank)
    /\ Thrown

\* case "chat_message"
ChatMessage(c, data) ==
    /\ Receives(c, data)
    /\ Authorized(c, data)
    /\ data.type = "chat_message"
    /\ players' = [players EXCEPT ![PlayerIdOf(c)].lastMessage = data.message]
    /\ Out(WorldUpdate, "Received")
    /\ UNCHANGED <<Sessions, worldItems, timers>>

\* a potion that heals beyond 100
Restored_Unclamped(hp, heal) == hp + heal
\* players[playerId].hp = Math.min(100, players[playerId].hp + item.stats.heal)
Restored(hp, heal) == Min(100, hp + heal)

\* case "use_item"
UseItem(c, data) ==
    /\ Receives(c, data)
    /\ Authorized(c, data)
    /\ data.type = "use_item"
    /\ LET playerId == PlayerIdOf(c)
           inventory == players[playerId].inventory
           inventoryItemIndex == FindIndex(inventory, data.itemId)
           item == inventory[inventoryItemIndex]
           used == Out({Msg(c, "item_used", NoItemId, None, 0)} \cup WorldUpdate,
                       "Received")
       IN
       IF inventoryItemIndex # 0
       THEN IF item.type = "consumable"
            THEN IF StatHeal(item.id) # 0
                 THEN /\ players' = [players EXCEPT
                            ![playerId].hp = Restored(@, StatHeal(item.id)),
                            ![playerId].inventory = Splice(@, inventoryItemIndex)]
                      /\ Out({Msg(c, "item_used", NoItemId, None, StatHeal(item.id))}
                             \cup WorldUpdate, "Received")
                 ELSE /\ Out(WorldUpdate, "Received")
                      /\ UNCHANGED players
            ELSE IF item.type = "weapon"
            THEN /\ Out({Msg(c, "weapon_ready", item.itemId, None,
                             IF StatAttack(item.id) # 0 THEN StatAttack(item.id) ELSE 5)}
                        \cup WorldUpdate, "Received")
                 /\ UNCHANGED players
            ELSE \* armor, and every other type: used and removed
                 /\ players' = [players EXCEPT
                       ![playerId].inventory = Splice(@, inventoryItemIndex)]
                 /\ used
       ELSE /\ Out(WorldUpdate, "Received")
            /\ UNCHANGED players
    /\ UNCHANGED <<Sessions, worldItems, timers>>

\* players[healTargetId].hp = Math.min(100, players[healTargetId].hp + actualHealAmount)
Healed(hp, actualHealAmount) == Min(100, hp + actualHealAmount)

\* case "heal_player"
HealPlayer(c, data) ==
    /\ Receives(c, data)
    /\ Authorized(c, data)
    /\ data.type = "heal_player"
    /\ LET playerId == PlayerIdOf(c)
           healTargetId == data.targetPlayerId
           healItemId == data.itemId
           healAmount == IF data.healAmount # 0 THEN data.healAmount ELSE 20
           failed(text) == Out({Msg(c, "heal_failed", NoItemId, text, 0)}
                               \cup WorldUpdate, "Received")
       IN
       IF healTargetId \in DOMAIN players
       THEN LET healItemIndex == FindTyped(players[playerId].inventory, healItemId,
                                           "consumable")
            IN
            IF healItemIndex # 0
            THEN LET healItem == players[playerId].inventory[healItemIndex]
                     healerPos == players[playerId].position
                     targetPos == players[healTargetId].position
                     actualHealAmount == IF StatHeal(healItem.id) # 0
                                         THEN StatHeal(healItem.id) ELSE healAmount
                     hurt == [players EXCEPT
                                 ![healTargetId].hp = Healed(@, actualHealAmount)]
                 IN
                 IF ~healerPos.ok \/ ~targetPos.ok
                 THEN Thrown
                 ELSE IF DistSq(targetPos, healerPos) <= HealRangeSq
                 THEN /\ players' = [hurt EXCEPT
                             ![playerId].inventory = Splice(@, healItemIndex)]
                      /\ Out({Msg(c, "heal_success", NoItemId, None, actualHealAmount)}
                             \cup {Msg(o, "healed", NoItemId, None, actualHealAmount) :
                                     o \in {x \in OpenClients :
                                              /\ x \in DOMAIN clientSessions
                                              /\ clientSessions[x] = healTargetId}}
                             \cup WorldUpdate, "Received")
                      /\ UNCHANGED <<Sessions, worldItems, timers>>
                 ELSE /\ failed("Target is too far away to heal!")
                      /\ UNCHANGED <<Sessions, players, worldItems, timers>>
            ELSE /\ failed("Healing item not found in your inventory!")
                 /\ UNCHANGED <<Sessions, players, worldItems, timers>>
       ELSE /\ failed("Target player not found!")
            /\ UNCHANGED <<Sessions, players, worldItems, timers>>

\* a stamp `${Date.now()}-${Math.floor(Math.random() * 1000)}` no item has
Fresh == IF minted < MaxMint THEN {minted + 1} ELSE {}
\* the stamps a drop may take: a new one, or the one made earlier in the same
\* millisecond (the clock has not moved and the random number falls in the
\* same bucket)
Stamps == Fresh \cup (IF stamped.stamp # 0 THEN {stamped.stamp} ELSE {})
\* the stamps a spawn may take: the firings are at least 30 s apart, so after
\* a firing the next one is in a later millisecond
SpawnStamps == IF stamped.spawn THEN Fresh ELSE Stamps

\* case "drop_item"
DropItem(c, data) ==
    /\ Receives(c, data)
    /\ Authorized(c, data)
    /\ data.type = "drop_item"
    /\ LET playerId == PlayerIdOf(c)
           dropItemIndex == FindIndex(players[playerId].inventory, data.itemId)
           droppedItem == players[playerId].inventory[dropItemIndex]
       IN
       IF dropItemIndex # 0
       THEN \E suffix \in Stamps :
              LET newWorldItem == [droppedItem EXCEPT
                                     !.itemId = <<droppedItem.id, suffix>>,
                                     !.position = players[playerId].position,
                                     !.collectionTime = 1000,
                                     !.beingCollected = FALSE,
                                     !.collectorId = None]
              IN
              /\ players' = [players EXCEPT
                                ![playerId].inventory = Splice(@, dropItemIndex)]
              /\ worldItems' = Append(worldItems, newWorldItem)
              /\ minted' = Max(minted, suffix)
              /\ stamped' = [stamped EXCEPT !.stamp = suffix]
              /\ Out({Msg(c, "item_dropped", NoItemId, None, 0)} \cup WorldUpdate,
                     "Received")
       ELSE /\ Out(WorldUpdate, "Received")
            /\ UNCHANGED <<players, worldItems, minted, stamped>>
    /\ UNCHANGED <<wsState, clientSessions, playerKeys, crashed, timers, playerQuests>>

\* case "view_profile"
ViewProfile(c, data) ==
    /\ Receives(c, data)
    /\ Authorized(c, data)
    /\ data.type = "view_profile"
    /\ LET profilePlayerId == data.profilePlayerId
       IN
       IF profilePlayerId \in DOMAIN players
       THEN Out({Msg(c, "profile_data", NoItemId, profilePlayerId, 0)} \cup WorldUpdate,
                "Received")
       ELSE Out(WorldUpdate, "Received")
    /\ UNCHANGED <<Sessions, players, worldItems, timers>>

\* the characters /[^\w\s-]/gi leaves in place: \w, \s and the hyphen
WordChars == {"a", "Z", "7", "_"}
SpaceChars == {" "}
Kept(ch) == ch \in WordChars \cup SpaceChars \cup {"-"}
\* String.prototype.substring(0, n)
Substring(str, n) == SubSeq(str, 1, Min(n, Len(str)))
\* a sanitizer that cuts before it filters
Sanitize_CutFirst(name) == SelectSeq(Substring(name, NameLimit), Kept)
\* data.name.replace(/[^\w\s-]/gi, '').substring(0, 20)
Sanitize(name) == Substring(SelectSeq(name, Kept), NameLimit)

\* case "update_profile"
UpdateProfile(c, data) ==
    /\ Receives(c, data)
    /\ Authorized(c, data)
    /\ data.type = "update_profile"
    /\ IF data.name # <<>>
       THEN players' = [players EXCEPT ![PlayerIdOf(c)].name = Sanitize(data.name)]
       ELSE UNCHANGED players
    /\ Out(WorldUpdate, "Received")
    /\ UNCHANGED <<Sessions, worldItems, timers>>

\* case "update_avatar"
UpdateAvatar(c, data) ==
    /\ Receives(c, data)
    /\ Authorized(c, data)
    /\ data.type = "update_avatar"
    /\ IF \E a \in 1..Len(Avatars) : Avatars[a] = data.avatar
       THEN players' = [players EXCEPT ![PlayerIdOf(c)].avatar = data.avatar]
       ELSE UNCHANGED players
    /\ Out(WorldUpdate, "Received")
    /\ UNCHANGED <<Sessions, worldItems, timers>>

----------------------------------------------------------------------------
(* The spawn cycle *)

\* const collectionTimes = {...}
collectionTimes(t) ==
    CASE t = "health-potion" -> 2000
      [] t = "iron-sword" -> 5000
      [] t = "gold-coin" -> 1000
      [] t = "leather-armor" -> 3000

\* randomPosition(): a point less than radius (0.0008) away from the centre
SpawnOffsets == {<<3, 4>>}

\* spawnNewItems, for an item type out of T; its last statement schedules the
\* next firing, so the cycle is pending as long as the process lives
Spawn(T) ==
    /\ ~crashed
    /\ \E randomItemType \in T : \E off \in SpawnOffsets : \E suffix \in SpawnStamps :
         LET firstPlayer == players[playerKeys[1]]
             centered == Len(playerKeys) > 0 /\ firstPlayer.position.ok
             centerLat == IF centered THEN firstPlayer.position.lat ELSE DefaultPos.lat
             centerLng == IF centered THEN firstPlayer.position.lng ELSE DefaultPos.lng
             newItem == createItem(randomItemType, suffix,
                                   Pos(centerLat + off[1], centerLng + off[2]),
                                   collectionTimes(randomItemType))
         IN
         /\ worldItems' = Append(worldItems, newItem)
         /\ minted' = Max(minted, suffix)
         /\ stamped' = [stamp |-> suffix, spawn |-> TRUE]
         /\ Out({Msg(o, "item_spawned", newItem.itemId, None, 0) : o \in OpenClients},
                "Spawned")
    /\ UNCHANGED <<wsState, clientSessions, players, playerKeys, timers, crashed, playerQuests>>

----------------------------------------------------------------------------
(* The completion timer of pickup_item *)

\* the re-check inside the callback:
\* currentItemIndex !== -1 && worldItems[currentItemIndex].collectorId === playerId
StillCollecting(items, currentItemIndex, playerId) ==
    /\ currentItemIndex # 0
    /\ items[currentItemIndex].collectorId = playerId

\* a completion that credits the value and appends the item as well
Grant_Both(player, item) ==
    [player EXCEPT !.gold = @ + StatValue(item.id), !.inventory = Append(@, item)]
\* if (item.type === 'collectible' && item.stats && item.stats.value)
\*   players[playerId].gold += item.stats.value
\* else players[playerId].inventory.push(worldItems[currentItemIndex])
Grant(player, item) ==
    IF item.type = "collectible" /\ StatValue(item.id) # 0
    THEN [player EXCEPT !.gold = @ + StatValue(item.id)]
    ELSE [player EXCEPT !.inventory = Append(@, item)]

\* the callback of setTimeout(() => {...}, collectionTime) for timers[k]
CompletionTimer(k) ==
    /\ ~crashed
    /\ k \in 1..Len(timers)
    /\ timers[k].remaining = 0
    /\ LET t == timers[k]
           playerId == t.playerId
           ws == ClientOf(playerId)
           currentItemIndex == FindIndex(worldItems, t.itemId)
       IN
       IF StillCollecting(worldItems, currentItemIndex, playerId)
       THEN IF playerId \notin DOMAIN players
            THEN \* TypeError on players[playerId].gold / .inventory; nothing
                 \* catches it, and Node ends the process
                 /\ crashed' = TRUE
                 /\ Out({}, "Uncaught TypeError")
                 /\ UNCHANGED <<players, worldItems, timers>>
            ELSE LET item == worldItems[currentItemIndex]
                 IN
                 /\ players' = [players EXCEPT ![playerId] = Grant(@, item)]
                 /\ logged' = IF item.type = "collectible" /\ StatValue(item.id) # 0
                               THEN "Added gold to player"
                               ELSE "Added item to player inventory"
                 /\ worldItems' = Splice(worldItems, currentItemIndex)
                 /\ timers' = Splice(timers, k)
                 /\ sent' = {Msg(ws, "collection_complete", t.itemId, None, 0)}
                            \cup WorldUpdate
                 /\ UNCHANGED crashed
       ELSE /\ timers' = Splice(timers, k)
            /\ Out({}, None)
            /\ UNCHANGED <<players, worldItems, crashed>>
    /\ UNCHANGED <<wsState, clientSessions, playerKeys, minted, stamped, playerQuests>>

----------------------------------------------------------------------------
(* The older server kept in src/attached_assets: connections and gain_xp *)

\* new Player({...}) of the older server
OldPlayer(playerId) ==
    [id |-> playerId, name |-> InitialName(playerId), level |-> 1, xp |-> 0,
     gold |-> 10, hp |-> 100, attack |-> 5, position |-> Pos(0, 0), inventory |-> <<>>]

\* wss.on("connection") of the older server
OldConnection(c) ==
    /\ wsState[c] = "new"
    /\ c = "c1" \/ wsState["c1"] # "new"
    /\ wsState' = [wsState EXCEPT ![c] = "open"]
    /\ players' = Put(players, PlayerIdOf(c), OldPlayer(PlayerIdOf(c)))
    /\ playerKeys' = Append(playerKeys, PlayerIdOf(c))
    /\ playerQuests' = Put(playerQuests, PlayerIdOf(c), <<>>)
    /\ Out({Msg(c, "load_player", NoItemId, PlayerIdOf(c), 0)}, None)
    /\ UNCHANGED <<clientSessions, worldItems, timers, crashed, minted, stamped>>

\* the quest of the one entry of npcs
Quest == [id |-> "quest-1", xp |-> 50, gold |-> 10]
\* the ids of npcs
NpcIds == {"npc-1"}

\* if (msg.type === "accept_quest") {...}, then the update_players broadcast
AcceptQuest(c, data) ==
    /\ wsState[c] = "open"
    /\ data.type = "accept_quest"
    /\ IF data.npcId \in NpcIds
       THEN /\ Len(playerQuests[PlayerIdOf(c)]) < MaxQuests
            /\ playerQuests' = [playerQuests EXCEPT
                                  ![PlayerIdOf(c)] = Append(@, Quest)]
       ELSE UNCHANGED playerQuests
    /\ Out(Broadcast("update_players"), "accept_quest")
    /\ UNCHANGED <<wsState, clientSessions, players, playerKeys, worldItems,
                   timers, crashed, minted, stamped>>

\* if (msg.type === "complete_quest") {...}, then the update_players broadcast
CompleteQuest(c, data) ==
    /\ wsState[c] = "open"
    /\ data.type = "complete_quest"
    /\ LET quests == playerQuests[PlayerIdOf(c)]
           found == SelectSeq(quests, LAMBDA q : q.id = data.questId)
       IN
       IF found # <<>>
       THEN /\ players[PlayerIdOf(c)].xp + found[1].xp <= MaxXp
            /\ players' = [players EXCEPT ![PlayerIdOf(c)].xp = @ + found[1].xp,
                                          ![PlayerIdOf(c)].gold = @ + found[1].gold]
            /\ playerQuests' = [playerQuests EXCEPT ![PlayerIdOf(c)] =
                                  SelectSeq(quests, LAMBDA q : q.id # data.questId)]
       ELSE UNCHANGED <<players, playerQuests>>
    /\ Out(Broadcast("update_players"), "complete_quest")
    /\ UNCHANGED <<wsState, clientSessions, playerKeys, worldItems, timers,
                   crashed, minted, stamped>>

\* a level-up that keeps the experience
LevelUp_KeepXp(player) ==
    [player EXCEPT !.level = @ + 1, !.attack = @ + 2, !.hp = @ + 10]
\* player.level++; player.xp = 0; player.attack += 2; player.hp += 10
LevelUp(player) ==
    [player EXCEPT !.level = @ + 1, !.xp = 0, !.attack = @ + 2, !.hp = @ + 10]

\* if (msg.type === "gain_xp") {...}, then the update_players broadcast
GainXp(c, data) ==
    /\ wsState[c] = "open"
    /\ data.type = "gain_xp"
    /\ LET player == players[PlayerIdOf(c)]
           gained == [player EXCEPT !.xp = @ + data.amount]
       IN
       IF gained.xp >= gained.level * 100
       THEN /\ gained.level < MaxLevel
            /\ players' = [players EXCEPT ![PlayerIdOf(c)] = LevelUp(gained)]
       ELSE players' = [players EXCEPT ![PlayerIdOf(c)] = gained]
    /\ Out(Broadcast("update_players"), "gain_xp")
    /\ UNCHANGED <<Sessions, worldItems, timers>>

----------------------------------------------------------------------------
(* Inputs *)

\* the positions clients report: the default one, and one at exactly the
\* pickup range (0.001) of the coin, within the range of the potion and out
\* of the range of the sword
Positions == {Pos(0, 0), Pos(5, 9)}

\* the playerId field of a message: absent, or some player
PlayerIdFields == {None} \cup PlayerIds

WorldItemIds == {worldItems[i].itemId : i \in 1..Len(worldItems)}
\* the identities clients name to pickup_item and cancel_collection: the world
\* items of the templates T, and an identity no item has
NamedItemIds(T) == {id \in WorldItemIds : id[1] \in T} \cup {BogusItemId}
\* the identities client c names to attack_player
InventoryIds(c) ==
    IF PlayerIdOf(c) \in DOMAIN players
    THEN {players[PlayerIdOf(c)].inventory[i].itemId :
             i \in 1..Len(players[PlayerIdOf(c)].inventory)}
    ELSE {}
\* the damage field of attack_player
Damages == {-50, 150}

Data(type, playerId) == [Blank EXCEPT !.type = type, !.playerId = playerId]

PositionData == {[Data("update_position", p) EXCEPT !.position = pos] :
                    p \in PlayerIdFields, pos \in Positions}
PickupData(T) == {[Data("pickup_item", p) EXCEPT !.itemId = id] :
                    p \in PlayerIdFields, id \in NamedItemIds(T)}
CancelData(T) == {[Data("cancel_collection", p) EXCEPT !.itemId = id] :
                    p \in PlayerIdFields, id \in NamedItemIds(T)}
AttackData(c) == {[Data("attack_player", p) EXCEPT !.weaponId = id,
                       !.targetPlayerId = target, !.damage = damage] :
                    p \in PlayerIdFields, id \in InventoryIds(c) \cup {BogusItemId},
                    target \in PlayerIds, damage \in Damages}

\* the positions of a session that may leave the position out
LaxPositions == {DefaultPos, NoPos}
LaxPositionData == {[Data("update_position", p) EXCEPT !.position = pos] :
                       p \in PlayerIdFields, pos \in LaxPositions}
\* chat_message without a message, and with one
ChatData == {[Data("chat_message", p) EXCEPT !.message = m] :
                p \in PlayerIdFields, m \in {Undefined, <<"h", "i">>}}
SoloChat == {data \in ChatData : data.message = Undefined}
ViewData == {[Data("view_profile", p) EXCEPT !.profilePlayerId = q] :
                p \in PlayerIdFields, q \in PlayerIds \cup {None}}
\* n times the letter a
Fill(n) == [i \in 1..n |-> "a"]
\* the names clients send: the short ones over three characters, long ones
\* around the limit, with and without a leading character that is removed,
\* one with every kind of character, and none
ShortChars == {"a", "!"}
Names == {<<>>} \cup {<<x>> : x \in ShortChars}
            \cup {<<x, y>> : x \in ShortChars, y \in ShortChars}
            \cup {Fill(n) : n \in (NameLimit - 1)..MaxName}
            \cup {<<"!">> \o Fill(n) : n \in (NameLimit - 1)..(MaxName - 1)}
            \cup {<<"Z", "7", "_", " ", "-", "<", "e-acute">>}
ProfileData == {[Data("update_profile", p) EXCEPT !.name = n] :
                   p \in PlayerIdFields, n \in Names}
AvatarData == {[Data("update_avatar", p) EXCEPT !.avatar = a] :
                  p \in PlayerIdFields, a \in {Avatars[1], "bogus"}}
UseData(c) == {[Data("use_item", p) EXCEPT !.itemId = id] :
                  p \in PlayerIdFields, id \in InventoryIds(c) \cup {NoItemId}}
DropData(c) == {[Data("drop_item", p) EXCEPT !.itemId = id] :
                   p \in PlayerIdFields, id \in InventoryIds(c) \cup {NoItemId}}
\* the healAmount field of heal_player
HealAmounts == {0, 150}
HealData(c) == {[Data("heal_player", p) EXCEPT !.itemId = id,
                     !.targetPlayerId = target, !.healAmount = amount] :
                   p \in PlayerIdFields, id \in InventoryIds(c) \cup {NoItemId},
                   target \in PlayerIds \cup {None}, amount \in HealAmounts}

\* the amount field of gain_xp
XpAmounts == {70, 80, 250}
XpData == {[Data("gain_xp", None) EXCEPT !.amount = a] : a \in XpAmounts}
\* the npcId field of accept_quest and the questId field of complete_quest
QuestData ==
    {[Data("accept_quest", None) EXCEPT !.npcId = n] : n \in {"npc-1", "npc-2"}}
    \cup {[Data("complete_quest", None) EXCEPT !.questId = q] : q \in {"quest-1", "quest-2"}}

\* the handling of one message: the authorization check, then the switch
OnMessage(c, data) ==
    IF ~Authorized(c, data)
    THEN Unauthorized(c, data)
    ELSE CASE data.type = "update_position" -> UpdatePosition(c, data)
           [] data.type = "pickup_item" -> PickupItem(c, data)
           [] data.type = "cancel_collection" -> CancelCollection(c, data)
           [] data.type = "attack_player" -> AttackPlayer(c, data)
           [] data.type = "chat_message" -> ChatMessage(c, data)
           [] data.type = "use_item" -> UseItem(c, data)
           [] data.type = "heal_player" -> HealPlayer(c, data)
           [] data.type = "drop_item" -> DropItem(c, data)
           [] data.type = "view_profile" -> ViewProfile(c, data)
           [] data.type = "update_profile" -> UpdateProfile(c, data)
           [] data.type = "update_avatar" -> UpdateAvatar(c, data)
           [] OTHER -> FALSE

----------------------------------------------------------------------------
(* Specifications *)

Lifecycle ==
    \/ \E c \in Clients : Connection(c)
    \/ \E c \in Clients : Close(c)
    \/ Tick
    \/ \E k \in 1..Len(timers) : CompletionTimer(k)

\* the collection of the items of the templates T
Collection(T) ==
    \/ \E c \in Clients : \E data \in PositionData : UpdatePosition(c, data)
    \/ \E c \in Clients : \E data \in PickupData(T) : PickupItem(c, data)
    \/ \E c \in Clients : \E data \in CancelData(T) : CancelCollection(c, data)

\* the clients collect the coin
CoinData == PositionData \cup PickupData({"gold-coin"})
               \cup CancelData({"gold-coin"})
Next ==
    \/ Lifecycle
    \/ Collection({"gold-coin"})
    \/ \E c \in Clients : \E data \in CoinData : Unauthorized(c, data)

Spec == Init /\ [][Next]_vars

\* the clients collect the sword and attack
CombatData(c) == PositionData \cup PickupData({"iron-sword"})
                    \cup CancelData({"iron-sword"}) \cup AttackData(c)
NextCombat ==
    \/ Lifecycle
    \/ Collection({"iron-sword"})
    \/ \E c \in Clients : \E data \in AttackData(c) : AttackPlayer(c, data)
    \/ \E c \in Clients : \E data \in CombatData(c) : Unauthorized(c, data)

SpecCombat == Init /\ [][NextCombat]_vars

\* the clients collect the coin and the potion; the event loop runs every
\* timer that is due, and time passes while none is
PairData == PositionData \cup PickupData({"gold-coin", "health-potion"})
               \cup CancelData({"gold-coin", "health-potion"})
NextPair ==
    \/ Lifecycle
    \/ Collection({"gold-coin", "health-potion"})
    \/ \E c \in Clients : \E data \in PairData : Unauthorized(c, data)

SpecPair ==
    /\ Init /\ [][NextPair]_vars
    /\ WF_vars(Tick)
    /\ WF_vars(\E k \in 1..Len(timers) : CompletionTimer(k))

\* the clients stay where they connected, in reach of the coin, and claim it
\* and cancel
StillData == PickupData({"gold-coin"})
                \cup CancelData({"gold-coin"})
NextStill ==
    \/ Lifecycle
    \/ \E c \in Clients : \E data \in PickupData({"gold-coin"}) :
          PickupItem(c, data)
    \/ \E c \in Clients : \E data \in CancelData({"gold-coin"}) :
          CancelCollection(c, data)
    \/ \E c \in Clients : \E data \in StillData : Unauthorized(c, data)

SpecStill == Init /\ [][NextStill]_vars

\* the clients look at profiles and edit their own
ProfileMessages == ViewData \cup ProfileData \cup AvatarData
NextProfile ==
    \/ \E c \in Clients : Connection(c)
    \/ \E c \in Clients : Close(c)
    \/ \E c \in Clients : \E data \in ViewData : ViewProfile(c, data)
    \/ \E c \in Clients : \E data \in ProfileData : UpdateProfile(c, data)
    \/ \E c \in Clients : \E data \in AvatarData : UpdateAvatar(c, data)
    \/ \E c \in Clients : \E data \in ProfileMessages : Unauthorized(c, data)

SpecProfile == Init /\ [][NextProfile]_vars

\* the older server: the clients connect, the first takes quests and gains
\* experience
NextXp ==
    \/ \E c \in Clients : OldConnection(c)
    \/ \E data \in XpData : GainXp("c1", data)
    \/ \E data \in QuestData : AcceptQuest("c1", data)
    \/ \E data \in QuestData : CompleteQuest("c1", data)

SpecXp == Init /\ [][NextXp]_vars

\* one client plays, with every kind of message and with bodies that are not
\* JSON, while the other one only connects and disconnects
Solo == "c1"
SoloItems == {"health-potion"}
SoloNames == {[Data("update_profile", p) EXCEPT !.name = n] :
                 p \in PlayerIdFields, n \in {<<>>, <<"a", "!">>}}
SoloMessages == LaxPositionData \cup SoloChat \cup ViewData \cup SoloNames
                   \cup AvatarData \cup PickupData(SoloItems)
                   \cup UseData(Solo) \cup HealData(Solo) \cup DropData(Solo)
                   \cup AttackData(Solo)
NextSolo ==
    \/ Lifecycle
    \/ Unparseable(Solo)
    \/ \E data \in LaxPositionData : UpdatePosition(Solo, data)
    \/ \E data \in SoloChat : ChatMessage(Solo, data)
    \/ \E data \in ViewData : ViewProfile(Solo, data)
    \/ \E data \in SoloNames : UpdateProfile(Solo, data)
    \/ \E data \in AvatarData : UpdateAvatar(Solo, data)
    \/ \E data \in PickupData(SoloItems) : PickupItem(Solo, data)
    \/ \E data \in UseData(Solo) : UseItem(Solo, data)
    \/ \E data \in HealData(Solo) : HealPlayer(Solo, data)
    \/ \E data \in DropData(Solo) : DropItem(Solo, data)
    \/ \E data \in AttackData(Solo) : AttackPlayer(Solo, data)
    \/ \E data \in SoloMessages : Unauthorized(Solo, data)

SpecSolo == Init /\ [][NextSolo]_vars

\* the first client collects the sword, moves about the other one, leaves
\* the position out, and attacks
FrayPositions == {Pos(0, 0), Pos(0, 2), Pos(0, 3), NoPos}
FrayPositionData == {[Data("update_position", None) EXCEPT !.position = pos] :
                        pos \in FrayPositions}
FrayData == FrayPositionData \cup PickupData({"iron-sword"}) \cup AttackData(Solo)
NextFray ==
    \/ Lifecycle
    \/ \E data \in FrayPositionData : UpdatePosition(Solo, data)
    \/ \E data \in PickupData({"iron-sword"}) : PickupItem(Solo, data)
    \/ \E data \in AttackData(Solo) : AttackPlayer(Solo, data)
    \/ \E data \in FrayData : Unauthorized(Solo, data)

SpecFray == Init /\ [][NextFray]_vars

\* the first client collects the potion, the sword and the armor, hits
\* itself with the sword and uses what it holds
Kit == {"health-potion", "iron-sword", "leather-armor"}
Blows == {10}
BlowData == {[Data("attack_player", None) EXCEPT !.weaponId = id,
                  !.targetPlayerId = PlayerIdOf(Solo), !.damage = damage] :
                id \in InventoryIds(Solo), damage \in Blows}
KitData == PickupData(Kit) \cup BlowData \cup UseData(Solo)
NextKit ==
    \/ Lifecycle
    \/ \E data \in PickupData(Kit) : PickupItem(Solo, data)
    \/ \E data \in BlowData : AttackPlayer(Solo, data)
    \/ \E data \in UseData(Solo) : UseItem(Solo, data)
    \/ \E data \in KitData : Unauthorized(Solo, data)

SpecKit == Init /\ [][NextKit]_vars

\* the first client sends every kind of message that writes a player, about
\* itself and about the other one, with the potion and the sword in reach;
\* nobody disconnects
CrowdItems == {"health-potion", "iron-sword"}
CrowdMoves == {[Data("update_position", None) EXCEPT !.position = Pos(0, 2)]}
CrowdChat == {[Data("chat_message", None) EXCEPT !.message = <<"h", "i">>]}
CrowdNames == {[Data("update_profile", None) EXCEPT !.name = <<"a">>]}
CrowdAvatars == {[Data("update_avatar", None) EXCEPT !.avatar = Avatars[1]]}
CrowdPickups == {[Data("pickup_item", None) EXCEPT !.itemId = id] :
                    id \in {x \in WorldItemIds : x[1] \in CrowdItems}}
CrowdUses == {[Data("use_item", None) EXCEPT !.itemId = id] : id \in InventoryIds(Solo)}
CrowdDrops == {[Data("drop_item", None) EXCEPT !.itemId = id] : id \in InventoryIds(Solo)}
CrowdHeals == {[Data("heal_player", None) EXCEPT !.itemId = id, !.targetPlayerId = t] :
                  id \in InventoryIds(Solo), t \in PlayerIds}
CrowdBlows == {[Data("attack_player", None) EXCEPT !.weaponId = id,
                    !.targetPlayerId = t, !.damage = 150] :
                  id \in InventoryIds(Solo), t \in PlayerIds}
CrowdData == CrowdMoves \cup CrowdChat \cup CrowdNames \cup CrowdAvatars
                \cup CrowdPickups \cup CrowdUses \cup CrowdDrops
                \cup CrowdHeals \cup CrowdBlows
NextCrowd ==
    \/ \E c \in Clients : Connection(c)
    \/ Tick
    \/ \E k \in 1..Len(timers) : CompletionTimer(k)
    \/ \E data \in CrowdMoves : UpdatePosition(Solo, data)
    \/ \E data \in CrowdChat : ChatMessage(Solo, data)
    \/ \E data \in CrowdNames : UpdateProfile(Solo, data)
    \/ \E data \in CrowdAvatars : UpdateAvatar(Solo, data)
    \/ \E data \in CrowdPickups : PickupItem(Solo, data)
    \/ \E data \in CrowdUses : UseItem(Solo, data)
    \/ \E data \in CrowdDrops : DropItem(Solo, data)
    \/ \E data \in CrowdHeals : HealPlayer(Solo, data)
    \/ \E data \in CrowdBlows : AttackPlayer(Solo, data)

SpecCrowd == Init /\ [][NextCrowd]_vars

\* the clients collect and drop potions while potions spawn; the event loop
\* runs every timer that is due, and the spawn cycle goes on
ItemMessages(c) == PickupData({"health-potion"}) \cup DropData(c)
NextItems ==
    \/ Lifecycle
    \/ Spawn({"health-potion"})
    \/ \E c \in Clients : \E data \in PickupData({"health-potion"}) : PickupItem(c, data)
    \/ \E c \in Clients : \E data \in DropData(c) : DropItem(c, data)
    \/ \E c \in Clients : \E data \in ItemMessages(c) : Unauthorized(c, data)

SpecItems ==
    /\ Init /\ [][NextItems]_vars
    /\ WF_vars(Tick)
    /\ WF_vars(\E k \in 1..Len(timers) : CompletionTimer(k))
    /\ WF_vars(Spawn({"health-potion"}))

----------------------------------------------------------------------------
(* Vocabulary of the properties *)

\* the world item the server resolves itemId to is claimed by player p
ClaimedBy(items, itemId, p) ==
    /\ FindIndex(items, itemId) # 0
    /\ items[FindIndex(items, itemId)].beingCollected
    /\ items[FindIndex(items, itemId)].collectorId = p
\* ... is claimed by nobody
Unclaimed(items, itemId) ==
    /\ FindIndex(items, itemId) # 0
    /\ ~items[FindIndex(items, itemId)].beingCollected
    /\ items[FindIndex(items, itemId)].collectorId = None
\* the squared distance of client c's player to that item
ItemDistSq(c, itemId) ==
    DistSq(players[PlayerIdOf(c)].position,
           worldItems[FindIndex(worldItems, itemId)].position)
\* client c's player and that item have positions
Located(c, itemId) ==
    /\ FindIndex(worldItems, itemId) # 0
    /\ players[PlayerIdOf(c)].position.ok
    /\ worldItems[FindIndex(worldItems, itemId)].position.ok
SentTo(msgs, c, type) == {m \in msgs : m.to = c /\ m.type = type}
\* the lines a pickup_item may log last
PickupLines == {"Starting collection for item", "Distance to item",
                "Item too far away for collection", "Item not found in world items",
                "Error processing message"}
\* the step is the handling of pickup_item data from client c (the log line
\* is looked at first: it rules out most steps cheaply)
PickupStep(c, data) == logged' \in PickupLines /\ PickupItem(c, data)
\* the lines the completion callback may log last (None: it logs nothing)
TimerLines == {"Added gold to player", "Added item to player inventory",
               "Uncaught TypeError", None}
\* the step is the callback of timer k
TimerStep(k) == logged' \in TimerLines /\ CompletionTimer(k)

----------------------------------------------------------------------------
(* C1 *)

C1_Fields ==
    \A i \in 1..Len(worldItems) :
        /\ worldItems[i].collectorId \in PlayerIds \cup {None}
        /\ worldItems[i].beingCollected <=> worldItems[i].collectorId \in PlayerIds

C1_Step(c, data) ==
    LET q == PlayerIdOf(c)
        id == data.itemId
    IN
    (/\ PickupStep(c, data)
     /\ Located(c, id)
     /\ ItemDistSq(c, id) < PickupRangeSq)
    => /\ \A p \in PlayerIds \ {q} :
             ClaimedBy(worldItems, id, p)
             => /\ SentTo(sent', c, "collection_error") # {}
                /\ SentTo(sent', c, "collection_started") = {}
                /\ ClaimedBy(worldItems', id, p)
                /\ worldItems' = worldItems
                /\ timers' = timers
       /\ Unclaimed(worldItems, id)
          => /\ SentTo(sent', c, "collection_started") # {}
             /\ SentTo(sent', c, "collection_error") = {}
             /\ ClaimedBy(worldItems', id, q)

\* C1: every world item has at most one holder (its claim fields name one
\* player or none); an in-range pickup_item for an item another player holds
\* is answered with collection_error, leaves the holder and schedules no
\* timer; an in-range pickup_item for an unclaimed item is answered with
\* collection_started and makes the sender the holder, so of two successive
\* pickups of one unclaimed item exactly the first is started.
C1_ExclusiveClaim ==
    /\ []C1_Fields
    /\ [][\A c \in OpenClients : \A data \in PickupData(Templates) :
              C1_Step(c, data)]_vars

\* a second player was refused an item that the first still holds
C1_Witness ==
    \E c \in Clients : \E i \in 1..Len(worldItems) :
        /\ SentTo(sent, c, "collection_error") # {}
        /\ \A m \in SentTo(sent, c, "collection_error") :
              m.text = "This item is being collected by another player"
        /\ worldItems[i].beingCollected
        /\ worldItems[i].collectorId \in PlayerIds \ {PlayerIdOf(c)}


----------------------------------------------------------------------------
(* C2 *)

\* C2: a completion timer that fires for a claim that was canceled before its
\* deadline has no effect, whoever holds the item then (the player who
\* canceled and picked the item up again included): the item stays in the
\* world, no inventory and no gold changes, no collection_complete is sent.
C2_CanceledTimerNoEffect ==
    [][\A k \in 1..Len(timers) :
          (timers[k].canceled /\ TimerStep(k))
          => /\ worldItems' = worldItems
             /\ players' = players
             /\ {m \in sent' : m.type = "collection_complete"} = {}]_vars

----------------------------------------------------------------------------
(* C3 *)

\* C3: in every reachable state the holder of every claimed world item is a
\* currently connected player (the holder's disconnection unclaims the item).
C3_HolderConnected ==
    \A i \in 1..Len(worldItems) :
        worldItems[i].beingCollected
        => /\ worldItems[i].collectorId \in DOMAIN players
           /\ wsState[ClientOf(worldItems[i].collectorId)] = "open"

----------------------------------------------------------------------------
(* C4 *)

\* C4: a completion timer that fires after the player who scheduled it has
\* disconnected is a silent no-op: no error is raised, nothing is sent, the
\* players and the world items are unchanged, and the server goes on.
C4_TimerAfterDisconnect ==
    [][\A k \in 1..Len(timers) :
          (timers[k].playerId \notin DOMAIN players /\ TimerStep(k))
          => /\ ~crashed'
             /\ sent' = {}
             /\ players' = players
             /\ worldItems' = worldItems]_vars

----------------------------------------------------------------------------
(* C5 *)

\* C5: in every reachable state every player's hp is within 0..100, whatever
\* the damage fields of the attack_player messages were.
C5_HpInRange == \A p \in DOMAIN players : players[p].hp \in 0..100

----------------------------------------------------------------------------
(* C6 *)

C6_Step(c, data) ==
    LET id == data.itemId
    IN
    (/\ PickupStep(c, data)
     /\ Located(c, id)
     /\ Unclaimed(worldItems, id))
    => /\ ItemDistSq(c, id) <= PickupRangeSq
          <=> SentTo(sent', c, "collection_started") # {}
       /\ ItemDistSq(c, id) > PickupRangeSq
          => /\ SentTo(sent', c, "collection_error") # {}
             /\ worldItems' = worldItems
       /\ DistSq(players[PlayerIdOf(c)].position,
                 worldItems[FindIndex(worldItems, id)].position)
          = DistSq(worldItems[FindIndex(worldItems, id)].position,
                   players[PlayerIdOf(c)].position)

\* C6: pickup_item for an existing unclaimed item is answered with
\* collection_started if and only if the distance between the sender and the
\* item is <= 0.001 (the threshold itself included); beyond it the sender
\* gets collection_error and the item is unchanged; the distance is the same
\* with the two positions swapped.
C6_InclusiveRange ==
    [][\A c \in OpenClients : \A data \in PickupData(Templates) : C6_Step(c, data)]_vars

----------------------------------------------------------------------------
(* C7 *)

CoinId == <<"gold-coin", 1>>
PotionId == <<"health-potion", 1>>

\* client c's player holds the claim of the item and stays connected
C7_Collecting(c, id) ==
    /\ wsState[c] = "open"
    /\ ClaimedBy(worldItems, id, PlayerIdOf(c))
\* the collection is over: the item has left the world (completion), or the
\* player has canceled or has disconnected
C7_Over(c, id) ==
    \/ FindIndex(worldItems, id) = 0
    \/ Unclaimed(worldItems, id)
    \/ wsState[c] # "open"

\* C7: a player who has picked up an item and neither cancels nor disconnects
\* eventually gets the completion: the item leaves the world pool.
C7_EventuallyComplete ==
    \A c \in Clients : \A id \in {CoinId, PotionId} :
        C7_Collecting(c, id) ~> C7_Over(c, id)

----------------------------------------------------------------------------
(* C8 *)

\* the step is the handling of cancel_collection data from client c
CancelStep(c, data) == logged' = "Received" /\ CancelCollection(c, data)

C8_Cancel(c, data) ==
    LET id == data.itemId
    IN
    (/\ ClaimedBy(worldItems, id, PlayerIdOf(c))
     /\ CancelStep(c, data))
    => /\ Unclaimed(worldItems', id)
       /\ \E m \in SentTo(sent', c, "collection_canceled") : m.itemId = id
       /\ \A o \in OpenClients : SentTo(sent', o, "world_update") # {}

C8_NextPickup(c, data) ==
    LET id == data.itemId
    IN
    (/\ Unclaimed(worldItems, id)
     /\ Located(c, id)
     /\ ItemDistSq(c, id) < PickupRangeSq
     /\ PickupStep(c, data))
    => /\ SentTo(sent', c, "collection_started") # {}
       /\ SentTo(sent', c, "collection_error") = {}
       /\ ClaimedBy(worldItems', id, PlayerIdOf(c))

\* C8: when the holder of a claim sends cancel_collection for the item, the
\* item becomes unclaimed, the holder gets collection_canceled and a
\* world_update goes to every open client; an in-range pickup_item for an
\* unclaimed item, from whichever player, is answered with collection_started.
C8_CancelReleases ==
    [][/\ \A c \in OpenClients : \A data \in CancelData(Templates) : C8_Cancel(c, data)
       /\ \A c \in OpenClients : \A data \in PickupData(Templates) : C8_NextPickup(c, data)]_vars

\* a player has been answered collection_started for an item whose claim
\* another player canceled just before (that player's timer is still pending)
C8_Witness ==
    \E c \in Clients : \E k \in 1..Len(timers) :
        /\ timers[k].canceled
        /\ timers[k].playerId # PlayerIdOf(c)
        /\ \E m \in SentTo(sent, c, "collection_started") : m.itemId = timers[k].itemId
        /\ ClaimedBy(worldItems, timers[k].itemId, PlayerIdOf(c))

----------------------------------------------------------------------------
(* C9 *)

\* the messages client c may send, whatever their playerId field
MessagesOf(c) ==
    PositionData \cup PickupData(Templates) \cup CancelData(Templates) \cup AttackData(c)

\* the playerId field names a player other than the sender's
C9_Foreign(c, data) ==
    (data.playerId \notin {None, PlayerIdOf(c)} /\ OnMessage(c, data))
    => /\ players' = players
       /\ worldItems' = worldItems
       /\ timers' = timers
       /\ sent' = {}

\* the playerId field is absent
C9_Own(c, data) ==
    (data.playerId = None /\ OnMessage(c, data))
    => /\ logged' # "Unauthorized action attempted"
       /\ OnMessage(c, [data EXCEPT !.playerId = PlayerIdOf(c)])
       /\ \A p \in DOMAIN players \ {PlayerIdOf(c)} :
             data.type # "attack_player" => players'[p] = players[p]
       /\ data.type = "update_position"
          => players'[PlayerIdOf(c)].position = data.position

\* C9: a message (of a type other than view_profile) whose playerId names a
\* player other than the sender's is dropped: no player, no world item and no
\* timer changes and nothing is sent to anyone; a message without playerId is
\* handled as the sender's own.
C9_ForeignDropped ==
    [][\A c \in OpenClients : \A data \in MessagesOf(c) :
          C9_Foreign(c, data) /\ C9_Own(c, data)]_vars

\* a message naming another player has just been dropped while that player
\* is connected and an item is in reach of the sender
C9_Witness ==
    /\ logged = "Unauthorized action attempted"
    /\ sent = {}
    /\ DOMAIN players = PlayerIds
    /\ \E c \in OpenClients : \E i \in 1..Len(worldItems) :
          /\ ~worldItems[i].beingCollected
          /\ DistSq(players[PlayerIdOf(c)].position, worldItems[i].position)
                < PickupRangeSq

----------------------------------------------------------------------------
(* C10 *)

C10_Step(c, data) ==
    (FindIndex(worldItems, data.itemId) = 0 /\ PickupStep(c, data))
    => /\ \E m \in sent' : m.to = c /\ m.type \notin {"world_update"}
       /\ players' = players
       /\ worldItems' = worldItems

\* C10: pickup_item naming an itemId that no world item has sends an error
\* response to the requester and changes no player and no world item.
C10_ItemNotFound ==
    [][\A c \in OpenClients : \A data \in PickupData(Templates) : C10_Step(c, data)]_vars

----------------------------------------------------------------------------
(* C11 *)

\* the step is the handling of view_profile data from client c
ViewStep(c, data) == logged' = "Received" /\ ViewProfile(c, data)

\* C11: view_profile is a pure read: no player and no world item changes, and
\* whatever it sends goes to the requester; no other session gets a message.
C11_ViewIsPureRead ==
    [][\A c \in OpenClients : \A data \in ViewData :
          ViewStep(c, data)
          => /\ players' = players
             /\ worldItems' = worldItems
             /\ \A m \in sent' : m.to = c]_vars

----------------------------------------------------------------------------
(* C12 *)

\* the step is the handling of a message or a completion: it is no connection
\* event and no spawn
HandlerStep == wsState' = wsState /\ logged' # "Spawned"

\* C12: every message and every completion that changes the players or the
\* world items sends, in the same step, a world_update to every open session.
C12_ChangeIsBroadcast ==
    [][(HandlerStep /\ (players' # players \/ worldItems' # worldItems))
       => \A o \in OpenClients : SentTo(sent', o, "world_update") # {}]_vars

\* a drop has just been broadcast to two open sessions
C12_Witness ==
    /\ OpenClients = Clients
    /\ \E m \in sent : m.type = "item_dropped"
    /\ \A o \in Clients : SentTo(sent, o, "world_update") # {}

----------------------------------------------------------------------------
(* C13 *)

C13_OneToOne ==
    /\ \A c \in DOMAIN clientSessions : clientSessions[c] \in DOMAIN players
    /\ \A p \in DOMAIN players :
          Cardinality({c \in DOMAIN clientSessions : clientSessions[c] = p}) = 1

\* C13: sessions and players are in one-to-one correspondence in every
\* reachable state: every session maps to a player of the store, every player
\* is the image of exactly one session; a step adds or removes a session
\* exactly when it adds or removes that session's player.
C13_SessionsMatchPlayers ==
    /\ []C13_OneToOne
    /\ [][\A c \in Clients :
            /\ (c \in DOMAIN clientSessions' /\ c \notin DOMAIN clientSessions)
               <=> (PlayerIdOf(c) \in DOMAIN players'
                    /\ PlayerIdOf(c) \notin DOMAIN players)
            /\ (c \notin DOMAIN clientSessions' /\ c \in DOMAIN clientSessions)
               <=> (PlayerIdOf(c) \notin DOMAIN players'
                    /\ PlayerIdOf(c) \in DOMAIN players)]_vars

\* one client has disconnected while the other one stays
C13_Witness ==
    /\ logged = "Client disconnected"
    /\ \E c \in Clients :
          /\ wsState[c] = "closed"
          /\ DOMAIN clientSessions = Clients \ {c}
          /\ DOMAIN players = PlayerIds \ {PlayerIdOf(c)}
          /\ DOMAIN players # {}

----------------------------------------------------------------------------
(* C14 *)

\* the message lacks the field its case needs
Lacking(data) ==
    CASE data.type = "update_position" -> ~data.position.ok
      [] data.type = "chat_message" -> data.message = Undefined
      [] data.type \in {"pickup_item", "use_item", "drop_item"} -> data.itemId = NoItemId
      [] data.type \in {"attack_player", "heal_player"} -> data.targetPlayerId = None
      [] OTHER -> FALSE
\* the messages of client c that lack a field
LackingData(c) ==
    {data \in LaxPositionData \cup ChatData \cup UseData(c) \cup DropData(c)
                \cup HealData(c) : Lacking(data)}
       \cup {[Data("pickup_item", p) EXCEPT !.itemId = NoItemId] : p \in PlayerIdFields}
       \cup {[Data("attack_player", p) EXCEPT !.weaponId = BogusItemId] :
                p \in PlayerIdFields}

\* C14: a body that is not JSON is discarded: nothing changes, nothing is
\* sent, the connection stays open; a message that lacks the field its case
\* needs changes no player and no world item.
C14_MalformedIgnored ==
    [][\A c \in OpenClients :
          /\ (logged' = "Error processing message" /\ Unparseable(c))
             => /\ players' = players /\ worldItems' = worldItems
                /\ sent' = {}
                /\ wsState'[c] = "open"
          /\ \A data \in LackingData(c) :
                OnMessage(c, data)
                => players' = players /\ worldItems' = worldItems]_vars

----------------------------------------------------------------------------
(* C15 *)

\* the replies that report a failure
FailureTypes == {"collection_error", "attack_failed", "heal_failed"}
\* the step just taken ended on an error path
ErrorPath ==
    \/ \E m \in sent : m.type \in FailureTypes
    \/ logged \in {"Error processing message", "Uncaught TypeError"}

\* C15: a message or a completion timer that ends on an error path (a
\* *_failed or *_error reply, or an exception) leaves the players and the
\* world items exactly as they were before it.
C15_FailureIsAtomic ==
    [][ErrorPath' => players' = players /\ worldItems' = worldItems]_vars

\* a heal has just failed for a player who holds an item
C15_Witness ==
    \E m \in sent :
        /\ m.type = "heal_failed"
        /\ m.text = "Target player not found!"
        /\ PlayerIdOf(m.to) \in DOMAIN players
        /\ players[PlayerIdOf(m.to)].inventory # <<>>

----------------------------------------------------------------------------
(* C16 *)

\* the item a spawn has just pushed
Spawned == worldItems[Len(worldItems)]

\* C16: each firing of the spawn cycle adds exactly one unclaimed item with
\* the collection time of its type and sends item_spawned to every open
\* session; the firings recur forever (as far as the stamps of the model
\* reach).
C16_SpawnCycle ==
    /\ [][logged' = "Spawned"
          => /\ Len(worldItems') = Len(worldItems) + 1
             /\ SubSeq(worldItems', 1, Len(worldItems)) = worldItems
             /\ ~Spawned'.beingCollected /\ Spawned'.collectorId = None
             /\ Spawned'.collectionTime = collectionTimes(Spawned'.id)
             /\ \A o \in OpenClients :
                   \E m \in SentTo(sent', o, "item_spawned") :
                       m.itemId = Spawned'.itemId]_vars
    /\ []<>(logged = "Spawned" \/ minted >= MaxMint)

----------------------------------------------------------------------------
(* C19 *)

\* the items of the sequence have pairwise distinct identities
DistinctIds(items) ==
    \A i \in 1..Len(items) : \A j \in 1..Len(items) :
        i # j => items[i].itemId # items[j].itemId

\* C19: in every reachable state the identities of the world items are
\* pairwise distinct, and so are those of every player's inventory.
C19_DistinctIdentities ==
    /\ DistinctIds(worldItems)
    /\ \A p \in DOMAIN players : DistinctIds(players[p].inventory)

----------------------------------------------------------------------------
(* C20 *)

\* C20: an item of an inventory carries no world position and no claim
\* state: it is not marked as being collected and names no collector.
C20_InventoryItemIsBare ==
    \A p \in DOMAIN players : \A i \in 1..Len(players[p].inventory) :
        /\ ~players[p].inventory[i].position.ok
        /\ ~players[p].inventory[i].beingCollected
        /\ players[p].inventory[i].collectorId = None

----------------------------------------------------------------------------
(* C17 *)

\* the characters the sanitized name may hold: letters, digits, the
\* underscore, whitespace and the hyphen
NameChars == {"a", "Z", "7", "_", " ", "-"}
\* the name without the characters that are not NameChars
RECURSIVE Stripped(_)
Stripped(name) ==
    IF name = <<>> THEN <<>>
    ELSE IF Head(name) \in NameChars
         THEN <<Head(name)>> \o Stripped(Tail(name))
         ELSE Stripped(Tail(name))
\* its first n characters
FirstChars(str, n) == [i \in 1..(IF Len(str) < n THEN Len(str) ELSE n) |-> str[i]]

\* the step is the handling of update_profile data from client c
ProfileStep(c, data) == logged' = "Received" /\ UpdateProfile(c, data)

C17_Step(c, data) ==
    LET q == PlayerIdOf(c)
    IN
    ProfileStep(c, data)
    => /\ data.name # <<>>
          => /\ players'[q].name = FirstChars(Stripped(data.name), 20)
             /\ Len(players'[q].name) <= 20
             /\ \A i \in 1..Len(players'[q].name) : players'[q].name[i] \in NameChars
       /\ data.name = <<>> => players'[q].name = players[q].name
       /\ \A p \in DOMAIN players \ {q} : players'[p].name = players[p].name

\* C17: update_profile with a non-empty name sets the sender's name to the
\* input without the characters that are no word character, whitespace or
\* hyphen, cut to its first 20 characters; without a name the name stays; no
\* other player's name changes.
C17_NameSanitized ==
    [][\A c \in OpenClients : \A data \in ProfileData : C17_Step(c, data)]_vars

\* a name of 21 kept characters has been cut to 20 while another player
\* keeps the initial name
C17_Witness ==
    /\ logged = "Received"
    /\ \E p \in DOMAIN players : \E q \in DOMAIN players :
          /\ players[p].name = Fill(20)
          /\ players[q].name = InitialName(q)

----------------------------------------------------------------------------
(* C18 *)

C18_Step(c, data) ==
    LET q == PlayerIdOf(c)
    IN
    GainXp(c, data)
    => /\ IF players[q].xp + data.amount >= players[q].level * 100
          THEN /\ players'[q].level = players[q].level + 1
               /\ players'[q].xp = 0
          ELSE /\ players'[q].level = players[q].level
               /\ players'[q].xp = players[q].xp + data.amount
       /\ players'[q].xp < players'[q].level * 100
       /\ \A p \in DOMAIN players \ {q} : players'[p] = players[p]

----------------------------------------------------------------------------
(* C21 *)

\* the lines a completion that takes effect logs last
GrantLines == {"Added gold to player", "Added item to player inventory"}

C21_Step(k) ==
    LET p == timers[k].playerId
        i == FindIndex(worldItems, timers[k].itemId)
        item == worldItems[i]
    IN
    (logged' \in GrantLines /\ CompletionTimer(k))
    => /\ ClaimedBy(worldItems, timers[k].itemId, p)
       /\ IF item.id = "gold-coin"
          THEN /\ players'[p].gold = players[p].gold + 1
               /\ players'[p].inventory = players[p].inventory
          ELSE /\ players'[p].inventory = players[p].inventory \o <<item>>
               /\ players'[p].gold = players[p].gold
       /\ Len(worldItems') = Len(worldItems) - 1
       /\ \A j \in 1..Len(worldItems) :
             j # i => worldItems'[IF j < i THEN j ELSE j - 1] = worldItems[j]
       /\ DOMAIN players' = DOMAIN players
       /\ \A q \in DOMAIN players \ {p} : players'[q] = players[q]

\* C21: when a completion takes effect for the holder, a collectible with a
\* value (the gold coin, value 1) adds exactly the value to the holder's gold
\* and leaves the inventory, any other item is appended at the end of the
\* holder's inventory and leaves the gold; the item leaves the world, every
\* other world item stays as it is and in its order, and no other player's
\* record changes.
C21_CompletionGrants ==
    [][\A k \in 1..Len(timers) : C21_Step(k)]_vars

\* an item has just been appended to the inventory of a player whom a coin
\* has been credited to before, while the other player is connected
C21_Witness ==
    /\ logged = "Added item to player inventory"
    /\ DOMAIN players = PlayerIds
    /\ \E p \in PlayerIds :
          /\ players[p].gold = 11
          /\ Len(players[p].inventory) = 1
          /\ players[p].inventory[1].id = "health-potion"

----------------------------------------------------------------------------
(* C22 *)

C22_Cancel(c, data) ==
    (/\ ~ClaimedBy(worldItems, data.itemId, PlayerIdOf(c))
     /\ CancelStep(c, data))
    => /\ worldItems' = worldItems
       /\ timers' = timers
       /\ players' = players
       /\ \A o \in Clients : SentTo(sent', o, "collection_canceled") = {}

C22_Deadline(k) ==
    LET p == timers[k].playerId
        id == timers[k].itemId
    IN
    (/\ ClaimedBy(worldItems, id, p)
     /\ p \in DOMAIN players
     /\ TimerStep(k))
    => /\ logged' \in GrantLines
       /\ \E m \in SentTo(sent', ClientOf(p), "collection_complete") : m.itemId = id
       /\ ~ClaimedBy(worldItems', id, p)
       /\ Len(worldItems') = Len(worldItems) - 1

\* C22: cancel_collection from a player who does not hold the named item
\* (it is unclaimed, held by another player, or absent) leaves every item,
\* every timer and every player as they are and sends no collection_canceled;
\* the timer of a claim its connected player still holds completes the item
\* for that player when it fires.
C22_ForeignCancelIgnored ==
    [][/\ logged' = "Received"
          => \A c \in OpenClients : \A data \in CancelData(Templates) : C22_Cancel(c, data)
       /\ logged' \in TimerLines
          => \A k \in 1..Len(timers) : C22_Deadline(k)]_vars

\* a cancel_collection has just been ignored while the other player holds
\* the named item and that player's timer is pending
C22_Witness ==
    /\ logged = "Received"
    /\ \A o \in Clients : SentTo(sent, o, "collection_canceled") = {}
    /\ OpenClients = Clients
    /\ \E k \in 1..Len(timers) :
          /\ ~timers[k].canceled
          /\ ClaimedBy(worldItems, timers[k].itemId, timers[k].playerId)

----------------------------------------------------------------------------
(* C23 *)

\* the step is the handling of attack_player data from client c
AttackStep(c, data) ==
    logged' \in {"Received", "Error processing message"} /\ AttackPlayer(c, data)

\* the target exists, the weapon is a weapon of the attacker's inventory and
\* the two are at most 0.0002 apart
C23_Hits(c, data) ==
    LET q == PlayerIdOf(c)
        t == data.targetPlayerId
    IN
    /\ t \in DOMAIN players
    /\ \E i \in 1..Len(players[q].inventory) :
          /\ players[q].inventory[i].itemId = data.weaponId
          /\ players[q].inventory[i].type = "weapon"
    /\ players[q].position.ok /\ players[t].position.ok
    /\ DistSq(players[q].position, players[t].position) <= 4

C23_Step(c, data) ==
    LET q == PlayerIdOf(c)
        t == data.targetPlayerId
        damage == IF data.damage # 0 THEN data.damage ELSE 5
    IN
    AttackStep(c, data)
    => IF C23_Hits(c, data)
       THEN /\ players'[t].hp = Max(0, players[t].hp - damage)
            /\ players' = [players EXCEPT ![t].hp = players'[t].hp]
            /\ SentTo(sent', c, "attack_success") # {}
            /\ SentTo(sent', c, "attack_failed") = {}
            /\ wsState[ClientOf(t)] = "open" => SentTo(sent', ClientOf(t), "attacked") # {}
            /\ worldItems' = worldItems
       ELSE /\ SentTo(sent', c, "attack_failed") # {}
            /\ SentTo(sent', c, "attack_success") = {}
            /\ players' = players
            /\ worldItems' = worldItems

\* C23: attack_player sets the target's hp to max(0, hp - damage) only when
\* the target exists, weaponId names a weapon of the attacker's inventory and
\* the two are at most 0.0002 apart; then the attacker gets attack_success,
\* the connected target gets attacked and the inventory stays; in every other
\* case the attacker gets attack_failed and no player and no world item
\* changes.
C23_AttackGuarded ==
    [][\A c \in OpenClients : \A data \in AttackData(c) : C23_Step(c, data)]_vars

----------------------------------------------------------------------------
(* C24 *)

\* the step is the handling of heal_player data from client c
HealStep(c, data) ==
    logged' \in {"Received", "Error processing message"} /\ HealPlayer(c, data)

\* the places of the consumables of that identity in client c's inventory
C24_Places(c, data) ==
    {i \in 1..Len(players[PlayerIdOf(c)].inventory) :
        /\ players[PlayerIdOf(c)].inventory[i].itemId = data.itemId
        /\ players[PlayerIdOf(c)].inventory[i].type = "consumable"}

\* the target exists, the item is a consumable of the healer's inventory and
\* the two are at most 0.0002 apart
C24_Heals(c, data) ==
    LET q == PlayerIdOf(c)
        t == data.targetPlayerId
    IN
    /\ t \in DOMAIN players
    /\ C24_Places(c, data) # {}
    /\ players[q].position.ok /\ players[t].position.ok
    /\ DistSq(players[q].position, players[t].position) <= 4

C24_Step(c, data) ==
    LET q == PlayerIdOf(c)
        t == data.targetPlayerId
        i == CHOOSE i \in C24_Places(c, data) : \A j \in C24_Places(c, data) : i <= j
        requested == IF data.healAmount # 0 THEN data.healAmount ELSE 20
        amount == IF players[q].inventory[i].id = "health-potion" THEN 20 ELSE requested
        hp == IF players[t].hp + amount < 100 THEN players[t].hp + amount ELSE 100
        healed == [players EXCEPT ![t].hp = hp]
    IN
    HealStep(c, data)
    => IF C24_Heals(c, data)
       THEN /\ players' = [healed EXCEPT ![q].inventory = Splice(@, i)]
            /\ SentTo(sent', c, "heal_success") # {}
            /\ SentTo(sent', c, "heal_failed") = {}
            /\ wsState[ClientOf(t)] = "open" => SentTo(sent', ClientOf(t), "healed") # {}
            /\ worldItems' = worldItems
       ELSE /\ SentTo(sent', c, "heal_failed") # {}
            /\ SentTo(sent', c, "heal_success") = {}
            /\ players' = players
            /\ worldItems' = worldItems

\* C24: heal_player changes state only when the target exists, itemId names
\* a consumable of the healer's inventory and the two are at most 0.0002
\* apart; then the target's hp becomes min(100, hp + amount), amount being
\* the heal stat of the item or else the requested healAmount (default 20),
\* that one item leaves the healer's inventory, the healer gets heal_success
\* and the connected target gets healed; in every other case the healer gets
\* heal_failed and nothing changes.
C24_HealGuarded ==
    [][\A c \in OpenClients : \A data \in HealData(c) : C24_Step(c, data)]_vars

----------------------------------------------------------------------------
(* C25 *)

\* the step is the handling of use_item data from client c
UseStep(c, data) == logged' = "Received" /\ UseItem(c, data)

\* the places of the items of that identity in client c's inventory
C25_Places(c, data) ==
    {i \in 1..Len(players[PlayerIdOf(c)].inventory) :
        players[PlayerIdOf(c)].inventory[i].itemId = data.itemId}

C25_Step(c, data) ==
    LET q == PlayerIdOf(c)
        i == CHOOSE i \in C25_Places(c, data) : \A j \in C25_Places(c, data) : i <= j
        item == players[q].inventory[i]
        hp == IF players[q].hp + 20 < 100 THEN players[q].hp + 20 ELSE 100
    IN
    UseStep(c, data)
    => /\ IF C25_Places(c, data) = {}
          THEN players' = players
          ELSE CASE item.type = "consumable" ->
                      players' = [players EXCEPT ![q].hp = hp,
                                                 ![q].inventory = Splice(@, i)]
                 [] item.type = "weapon" ->
                      /\ players' = players
                      /\ SentTo(sent', c, "weapon_ready") # {}
                 [] OTHER ->
                      players' = [players EXCEPT ![q].inventory = Splice(@, i)]
       /\ \A p \in DOMAIN players \ {q} : players'[p] = players[p]
       /\ worldItems' = worldItems

\* C25: use_item on an item of the sender's inventory: a consumable (the
\* potion, heal 20) sets the sender's hp to min(100, hp + 20) and leaves the
\* inventory (from 90 the hp becomes 100); a weapon stays, no hp changes and
\* weapon_ready is sent; armor, and an item of any other type, leaves the
\* inventory; use_item for an itemId that is not in the inventory changes
\* nothing; no other player's record ever changes.
C25_UseByType ==
    [][\A c \in OpenClients : \A data \in UseData(c) : C25_Step(c, data)]_vars

\* a player who holds the sword has just used the potion and is at hp 100,
\* while the other player is connected
C25_Witness ==
    /\ logged = "Received"
    /\ \E m \in SentTo(sent, Solo, "item_used") : m.num = 20
    /\ DOMAIN players = PlayerIds
    /\ players[PlayerIdOf(Solo)].hp = 100
    /\ \E i \in 1..Len(players[PlayerIdOf(Solo)].inventory) :
          players[PlayerIdOf(Solo)].inventory[i].type = "weapon"

----------------------------------------------------------------------------
(* C26 *)

\* the step is the handling of drop_item data from client c
DropStep(c, data) == logged' = "Received" /\ DropItem(c, data)

C26_Step(c, data) ==
    LET q == PlayerIdOf(c)
        places == C25_Places(c, data)
        i == CHOOSE i \in places : \A j \in places : i <= j
        item == players[q].inventory[i]
        new == worldItems'[Len(worldItems')]
    IN
    DropStep(c, data)
    => IF places = {}
       THEN players' = players /\ worldItems' = worldItems
       ELSE /\ players' = [players EXCEPT ![q].inventory = Splice(@, i)]
            /\ Len(worldItems') = Len(worldItems) + 1
            /\ SubSeq(worldItems', 1, Len(worldItems)) = worldItems
            /\ new.id = item.id
            /\ new.position = players[q].position
            /\ ~new.beingCollected /\ new.collectorId = None
            /\ new.collectionTime = 1000
            /\ new.itemId # item.itemId
            /\ \A j \in 1..Len(worldItems) : worldItems[j].itemId # new.itemId
            /\ \A p \in DOMAIN players' : \A j \in 1..Len(players'[p].inventory) :
                  players'[p].inventory[j].itemId # new.itemId
            /\ \A k \in 1..Len(timers) : timers[k].itemId # new.itemId

\* C26: drop_item for an item of the sender's inventory takes exactly that
\* item out of the inventory and adds exactly one world item, at the sender's
\* position, unclaimed, with collection time 1000 and an identity that the
\* dropped item did not have, that no other item has and that no pending
\* completion timer names; drop_item for an itemId that is not in the
\* inventory changes nothing.
C26_DropIsFresh ==
    [][\A c \in OpenClients : \A data \in DropData(c) : C26_Step(c, data)]_vars

----------------------------------------------------------------------------
(* C27 *)

\* player p's record may have changed in its hp only
C27_HpOnly(p) ==
    /\ p \in DOMAIN players'
    /\ players'[p] = [players[p] EXCEPT !.hp = players'[p].hp]

C27_Message(c, data) ==
    (players' # players /\ OnMessage(c, data))
    => \A p \in DOMAIN players \ {PlayerIdOf(c)} :
          /\ C27_HpOnly(p)
          /\ players'[p].hp # players[p].hp
             => data.type \in {"attack_player", "heal_player"}

C27_Timer(k) ==
    (players' # players /\ TimerStep(k))
    => \A p \in DOMAIN players \ {timers[k].playerId} :
          p \in DOMAIN players' /\ players'[p] = players[p]

\* C27: a message of a session changes no field of another player's record
\* but the hp, and the hp through attack_player and heal_player only; a
\* completion timer changes no record but that of the player whose pickup
\* scheduled it.
C27_OwnRecordOnly ==
    [][/\ players' # players
          => \A c \in OpenClients : \A data \in CrowdData : C27_Message(c, data)
       /\ \A k \in 1..Len(timers) : C27_Timer(k)]_vars

\* the first player, who has moved, talked and taken a name, has just hit
\* the other one, whose record is as new but for the hp
C27_Witness ==
    /\ SentTo(sent, "c2", "attacked") # {}
    /\ DOMAIN players = PlayerIds
    /\ players["p2"] = [NewPlayer("p2", Avatars[1]) EXCEPT !.hp = 0]
    /\ players["p1"].name = <<"a">>
    /\ players["p1"].lastMessage = <<"h", "i">>
    /\ players["p1"].position = Pos(0, 2)

----------------------------------------------------------------------------
(* C28 *)

\* the identities of player p's inventory
C28_Held(p) == {players[p].inventory[i].itemId : i \in 1..Len(players[p].inventory)}

\* no identity is in the world and in an inventory, none in two inventories
C28_Disjoint ==
    /\ \A p \in DOMAIN players : C28_Held(p) \cap WorldItemIds = {}
    /\ \A p \in DOMAIN players : \A q \in DOMAIN players \ {p} :
          C28_Held(p) \cap C28_Held(q) = {}

\* a completion that takes effect takes the identity out of the world, so
\* that no timer scheduled for it can take effect again
C28_Once(k) ==
    (logged' \in GrantLines /\ CompletionTimer(k))
    => /\ FindIndex(worldItems', timers[k].itemId) = 0
       /\ \A j \in 1..Len(timers') :
             timers'[j].itemId = timers[k].itemId
             => ~StillCollecting(worldItems', FindIndex(worldItems', timers'[j].itemId),
                                 timers'[j].playerId)

\* C28: in every reachable state no item identity is at once in the world
\* and in an inventory, and none is in two players' inventories; the
\* completion of a world item takes effect at most once, however many timers
\* were scheduled for it.
C28_GrantedOnce ==
    /\ []C28_Disjoint
    /\ [][\A k \in 1..Len(timers) : C28_Once(k)]_vars

============================================================================
